---------------------------- MODULE Spec2Model ----------------------------
(***************************************************************************)
(* MLS-Analyzer (src/mls_app.py): a Flask application over three tables   *)
(* (Listing, Field, Observation) with a JSON entry path, a bulk           *)
(* "mark empty" action, a per-batch summary, a CSV export/import pair and  *)
(* a Google-Sheets matrix export.                                          *)
(*                                                                         *)
(* Text is modelled as a sequence of one-character strings, so that        *)
(* str.strip(), the csv writer and the csv reader are computed character   *)
(* by character.  A row's primary key is its position in the table: the    *)
(* tables are append-only and SQLite hands out ascending integer keys.     *)
(* created_at / checked_at default to the insertion time, so ordering by   *)
(* created_at is ordering by primary key.                                  *)
(***************************************************************************)
EXTENDS Integers, Sequences, FiniteSets, TLC

VARIABLES
    db,           \* the database: [listing, field, observation], each a sequence of rows
    importsOnly,  \* history: every write to db so far was made by import_obs
    sheet,        \* the target spreadsheet document of the matrix export
    callers       \* requests in flight, one per concurrent caller

vars == <<db, importsOnly, sheet, callers>>

-----------------------------------------------------------------------------
(* Bounds of the model *)

MaxRows == 4              \* Listing and Observation rows together
MaxMatrixListings == 10   \* Listing rows when the matrix formulas are checked

-----------------------------------------------------------------------------
(* Text *)

Blank == <<>>

IsSpace(c) == c \in {" ", "\t", "\n", "\r"}

RECURSIVE LStrip(_)
LStrip(s) ==
    IF s = <<>> THEN <<>>
    ELSE IF IsSpace(Head(s)) THEN LStrip(Tail(s)) ELSE s

RECURSIVE RStrip(_)
RStrip(s) ==
    IF s = <<>> THEN <<>>
    ELSE IF IsSpace(s[Len(s)]) THEN RStrip(SubSeq(s, 1, Len(s) - 1)) ELSE s

\* str.strip()
Strip(s) == RStrip(LStrip(s))

-----------------------------------------------------------------------------
(* Tables *)

ListingRow(batch, text) == [batch |-> batch, listing_id_text |-> text]

FieldRow(name) == [canonical |-> name]

ObservationRow(lid, fid, filled, raw, analyst) ==
    [listing_id |-> lid, field_id |-> fid, filled |-> filled,
     raw_text |-> raw, analyst |-> analyst]

EmptyDb == [listing |-> <<>>, field |-> <<>>, observation |-> <<>>]

Ids(table) == 1..Len(table)

\* smallest element of a non-empty set of integers
Min(S) == CHOOSE x \in S : \A y \in S : x <= y

\* Query.first() over a set of matching primary keys: 0 stands for None
First(S) == IF S = {} THEN 0 ELSE Min(S)

\* Field.query.filter_by(canonical=name).first()
FieldByCanonical(d, name) ==
    First({i \in Ids(d.field) : d.field[i].canonical = name})

\* the column without its unique constraint (a mutation)
FieldInsertAllowed_NoConstraint(d, name) == TRUE

\* the column is declared unique: a second row with the same canonical
\* name is refused by the database (IntegrityError)
FieldInsertAllowed(d, name) ==
    \A i \in Ids(d.field) : d.field[i].canonical # name

\* db.session.add(Field(canonical=name)); db.session.commit()
FieldInsert(d, name) ==
    [d EXCEPT !.field = Append(@, FieldRow(name))]

\* the inline find-or-create of add_listing and import_obs, and the body of
\* find_or_create_field after the blank test: [db, id]
ResolveField(d, name) ==
    LET f == FieldByCanonical(d, name)
    IN  IF f # 0 THEN [db |-> d, id |-> f]
        ELSE [db |-> FieldInsert(d, name), id |-> Len(d.field) + 1]

\* find_or_create_field with the lookup made on the name as given (a
\* mutation: the stripped name is only used for the insert)
FindOrCreateField_RawLookup(d, name) ==
    LET n == Strip(name)
        f == FieldByCanonical(d, name)
    IN  IF n = Blank THEN [db |-> d, id |-> 0]
        ELSE IF f # 0 THEN [db |-> d, id |-> f]
        ELSE [db |-> FieldInsert(d, n), id |-> Len(d.field) + 1]

\* find_or_create_field(name): id 0 stands for None
FindOrCreateField(d, name) ==
    LET n == Strip(name)
    IN  IF n = Blank THEN [db |-> d, id |-> 0]
        ELSE ResolveField(d, n)

\* Observation.query.filter_by(listing_id=l, field_id=f).first()
ObservationFor(d, l, f) ==
    First({i \in Ids(d.observation) :
              d.observation[i].listing_id = l /\ d.observation[i].field_id = f})


-----------------------------------------------------------------------------
(* add_listing: POST /api/batches/<batch>/listings *)

\* the loop with the blank test made before the strip (a mutation)
RECURSIVE AddObservations_BlankBeforeStrip(_, _, _, _)
AddObservations_BlankBeforeStrip(d, lid, obs, analyst) ==
    IF obs = <<>> THEN d
    ELSE LET raw == Strip(Head(obs).field_text)
         IN  IF Head(obs).field_text = Blank
             THEN AddObservations_BlankBeforeStrip(d, lid, Tail(obs), analyst)
             ELSE LET r  == ResolveField(d, raw)
                      ob == ObservationRow(lid, r.id, Head(obs).filled, raw, analyst)
                      d2 == [r.db EXCEPT !.observation = Append(@, ob)]
                  IN  AddObservations_BlankBeforeStrip(d2, lid, Tail(obs), analyst)

\* the loop over data['observations']: blank field texts are skipped, the
\* Field is found or created, one Observation is added per remaining entry
RECURSIVE AddObservations(_, _, _, _)
AddObservations(d, lid, obs, analyst) ==
    IF obs = <<>> THEN d
    ELSE LET raw == Strip(Head(obs).field_text)
         IN  IF raw = Blank THEN AddObservations(d, lid, Tail(obs), analyst)
             ELSE LET r  == ResolveField(d, raw)
                      ob == ObservationRow(lid, r.id, Head(obs).filled, raw, analyst)
                      d2 == [r.db EXCEPT !.observation = Append(@, ob)]
                  IN  AddObservations(d2, lid, Tail(obs), analyst)

\* the handler with the Listing's id read before the insert (a mutation)
AddListing_StaleId(d, batch, data) ==
    LET listing_text == Strip(data.listing_id)
    IN  IF listing_text = Blank THEN [db |-> d, status |-> 400, ret |-> 0]
        ELSE LET lid == Len(d.listing)
                 d1  == [d EXCEPT !.listing = Append(@, ListingRow(batch, listing_text))]
             IN  [db |-> AddObservations(d1, lid, data.observations, data.analyst),
                  status |-> 200, ret |-> lid]

\* the handler: [db, status, ret], ret the listing_db_id of the response
AddListing(d, batch, data) ==
    LET listing_text == Strip(data.listing_id)
    IN  IF listing_text = Blank THEN [db |-> d, status |-> 400, ret |-> 0]
        ELSE LET lid == Len(d.listing) + 1
                 d1  == [d EXCEPT !.listing = Append(@, ListingRow(batch, listing_text))]
             IN  [db |-> AddObservations(d1, lid, data.observations, data.analyst),
                  status |-> 200, ret |-> lid]

-----------------------------------------------------------------------------
(* bulk_mark_empty: POST /field/<field_id>/bulk_mark_empty *)

\* the loop with a gap test that only counts filled Observations (a mutation)
RECURSIVE MarkEmptyFrom_FilledOnly(_, _, _, _, _)
MarkEmptyFrom_FilledOnly(d, l, field_id, analyst, count) ==
    IF l > Len(d.listing) THEN [db |-> d, count |-> count]
    ELSE IF \A o \in Ids(d.observation) :
               ~(d.observation[o].listing_id = l /\ d.observation[o].field_id = field_id
                 /\ d.observation[o].filled)
         THEN LET ob == ObservationRow(l, field_id, FALSE,
                                       d.field[field_id].canonical, analyst)
              IN  MarkEmptyFrom_FilledOnly([d EXCEPT !.observation = Append(@, ob)],
                                           l + 1, field_id, analyst, count + 1)
         ELSE MarkEmptyFrom_FilledOnly(d, l + 1, field_id, analyst, count)

\* the loop over Listing.query.all(), from listing l on: [db, count]
RECURSIVE MarkEmptyFrom(_, _, _, _, _)
MarkEmptyFrom(d, l, field_id, analyst, count) ==
    IF l > Len(d.listing) THEN [db |-> d, count |-> count]
    ELSE IF ObservationFor(d, l, field_id) = 0
         THEN LET ob == ObservationRow(l, field_id, FALSE,
                                       d.field[field_id].canonical, analyst)
              IN  MarkEmptyFrom([d EXCEPT !.observation = Append(@, ob)],
                                l + 1, field_id, analyst, count + 1)
         ELSE MarkEmptyFrom(d, l + 1, field_id, analyst, count)

\* the handler: [db, status, ret], ret the local variable count
BulkMarkEmpty(d, field_id, analyst) ==
    IF field_id \notin Ids(d.field) THEN [db |-> d, status |-> 404, ret |-> 0]
    ELSE LET r == MarkEmptyFrom(d, 1, field_id, analyst, 0)
         IN  [db |-> r.db, status |-> 302, ret |-> r.count]

-----------------------------------------------------------------------------
(* field_detail: GET /field/<field_id> *)

\* the status of one Listing for the Field: the first Observation of the pair
FieldDetailStatus(d, field_id, l) ==
    LET obs == ObservationFor(d, l, field_id)
    IN  IF obs # 0
        THEN (IF d.observation[obs].filled THEN "filled" ELSE "empty")
        ELSE "unchecked"

\* one entry of rows; obs_id 0 stands for None
FieldDetailRow(d, field_id, l) ==
    [listing_id_text |-> d.listing[l].listing_id_text,
     status |-> FieldDetailStatus(d, field_id, l),
     obs_id |-> ObservationFor(d, l, field_id)]

\* the handler: [status, rows], the Listings taken latest first
FieldDetail(d, field_id) ==
    IF field_id \notin Ids(d.field) THEN [status |-> 404, rows |-> <<>>]
    ELSE [status |-> 200,
          rows |-> [i \in 1..Len(d.listing) |->
                       FieldDetailRow(d, field_id, Len(d.listing) + 1 - i)]]

-----------------------------------------------------------------------------
(* batch_summary: GET /api/batches/<batch>/summary *)

\* the join without its WHERE clause (a mutation)
SummaryJoin_AllBatches(d, batch, f) ==
    {o \in Ids(d.observation) :
        /\ d.observation[o].field_id = f
        /\ d.observation[o].listing_id \in Ids(d.listing)}

\* field f JOIN observation o ON f.id=o.field_id JOIN listing l ON
\* o.listing_id=l.id WHERE l.batch = :batch, for one field: the o.id joined
SummaryJoin(d, batch, f) ==
    {o \in Ids(d.observation) :
        /\ d.observation[o].field_id = f
        /\ d.observation[o].listing_id \in Ids(d.listing)
        /\ d.listing[d.observation[o].listing_id].batch = batch}

\* the rows of the response (GROUP BY f.id drops the fields that join
\* nothing); ORDER BY sample_count only places them and is left out
BatchSummary(d, batch) ==
    {[field_id  |-> f,
      canonical |-> d.field[f].canonical,
      filled    |-> Cardinality({o \in SummaryJoin(d, batch, f) : d.observation[o].filled = TRUE}),
      empty     |-> Cardinality({o \in SummaryJoin(d, batch, f) : d.observation[o].filled = FALSE}),
      sample    |-> Cardinality(SummaryJoin(d, batch, f))] :
        f \in {g \in Ids(d.field) : SummaryJoin(d, batch, g) # {}}}

-----------------------------------------------------------------------------
(* The csv module, 'excel' dialect: delimiter ',', quotechar '"',          *)
(* doublequote, lineterminator '\r\n', QUOTE_MINIMAL                        *)

Delimiter == ","
QuoteChar == "\""
LineTerminator == <<"\r", "\n">>

RECURSIVE Concat(_)
Concat(ss) == IF ss = <<>> THEN <<>> ELSE Head(ss) \o Concat(Tail(ss))

\* a cell needs quotes when it holds the delimiter, the quotechar or a
\* character of the lineterminator
NeedsQuote(cell) ==
    \E i \in 1..Len(cell) : cell[i] \in {Delimiter, QuoteChar, "\r", "\n"}

\* every quotechar of the cell doubled
RECURSIVE DoubleQuotes(_)
DoubleQuotes(cell) ==
    IF cell = <<>> THEN <<>>
    ELSE (IF Head(cell) = QuoteChar THEN <<QuoteChar, QuoteChar>> ELSE <<Head(cell)>>)
         \o DoubleQuotes(Tail(cell))

\* a cell quoted without doubling its quotechars (a mutation)
WriteCell_NoDoubling(cell) ==
    IF NeedsQuote(cell) THEN <<QuoteChar>> \o cell \o <<QuoteChar>>
    ELSE cell

WriteCell(cell) ==
    IF NeedsQuote(cell) THEN <<QuoteChar>> \o DoubleQuotes(cell) \o <<QuoteChar>>
    ELSE cell

RECURSIVE JoinCells(_)
JoinCells(cells) ==
    IF Len(cells) = 1 THEN WriteCell(cells[1])
    ELSE WriteCell(Head(cells)) \o <<Delimiter>> \o JoinCells(Tail(cells))

\* csv.writer.writerow for a row of at least two cells
WriteRow(cells) == JoinCells(cells) \o LineTerminator

\* the reader's end-of-line signal, given after the last character of a line
EOL == "EOL"

ReaderStart == [state |-> "START_RECORD", field |-> <<>>, row |-> <<>>,
                rows |-> <<>>, err |-> FALSE]

SaveField(p) == [p EXCEPT !.row = Append(@, p.field), !.field = <<>>]

AddChar(p, c) == [p EXCEPT !.field = Append(@, c)]

AfterLineEnd(c) == IF c = EOL THEN "START_RECORD" ELSE "EAT_CRNL"

\* parse_process_char in state START_FIELD
StartField(p, c) ==
    IF c \in {"\n", "\r", EOL} THEN [SaveField(p) EXCEPT !.state = AfterLineEnd(c)]
    ELSE IF c = QuoteChar THEN [p EXCEPT !.state = "IN_QUOTED_FIELD"]
    ELSE IF c = Delimiter THEN [SaveField(p) EXCEPT !.state = "START_FIELD"]
    ELSE [AddChar(p, c) EXCEPT !.state = "IN_FIELD"]

\* parse_process_char: one character through the reader's state machine
ProcessChar(p, c) ==
    CASE p.state = "START_RECORD" ->
            IF c = EOL THEN p
            ELSE IF c \in {"\n", "\r"} THEN [p EXCEPT !.state = "EAT_CRNL"]
            ELSE StartField(p, c)
      [] p.state = "START_FIELD" -> StartField(p, c)
      [] p.state = "IN_FIELD" ->
            IF c \in {"\n", "\r", EOL} THEN [SaveField(p) EXCEPT !.state = AfterLineEnd(c)]
            ELSE IF c = Delimiter THEN [SaveField(p) EXCEPT !.state = "START_FIELD"]
            ELSE AddChar(p, c)
      [] p.state = "IN_QUOTED_FIELD" ->
            IF c = EOL THEN p
            ELSE IF c = QuoteChar THEN [p EXCEPT !.state = "QUOTE_IN_QUOTED_FIELD"]
            ELSE AddChar(p, c)
      [] p.state = "QUOTE_IN_QUOTED_FIELD" ->
            IF c = QuoteChar THEN [AddChar(p, c) EXCEPT !.state = "IN_QUOTED_FIELD"]
            ELSE IF c = Delimiter THEN [SaveField(p) EXCEPT !.state = "START_FIELD"]
            ELSE IF c \in {"\n", "\r", EOL}
                 THEN [SaveField(p) EXCEPT !.state = AfterLineEnd(c)]
            ELSE [AddChar(p, c) EXCEPT !.state = "IN_FIELD"]
      [] p.state = "EAT_CRNL" ->
            IF c \in {"\n", "\r"} THEN p
            ELSE IF c = EOL THEN [p EXCEPT !.state = "START_RECORD"]
            ELSE [p EXCEPT !.err = TRUE]

\* the record is handed out once a line ends with the machine back at START_RECORD
EmitRow(p) == [p EXCEPT !.rows = Append(@, p.row), !.row = <<>>]

EndLine(p) ==
    LET q == ProcessChar(p, EOL)
    IN  IF q.err THEN q
        ELSE IF q.state = "START_RECORD" THEN EmitRow(q) ELSE q

\* csv.reader over io.StringIO(text): lines end at "\n"; at the end of the
\* text an unfinished record is handed out as it stands
RECURSIVE Feed(_, _, _)
Feed(p, text, i) ==
    IF p.err THEN p
    ELSE IF i > Len(text)
         THEN LET q == IF i > 1 /\ text[i - 1] # "\n" THEN EndLine(p) ELSE p
              IN  IF ~q.err /\ q.state # "START_RECORD" THEN EmitRow(SaveField(q)) ELSE q
    ELSE LET q == ProcessChar(p, text[i])
         IN  Feed(IF text[i] = "\n" /\ ~q.err THEN EndLine(q) ELSE q, text, i + 1)

\* [rows, err]: the rows read, and whether the reader then raised csv.Error
CsvReader(text) == Feed(ReaderStart, text, 1)

\* the value of a DictReader row that a missing cell gets (restval)
None == <<"None">>

\* row.get(key, default) on the dict DictReader builds from fieldnames and row
DictGet(fieldnames, row, key, default) ==
    LET at == {i \in 1..Len(fieldnames) : fieldnames[i] = key}
        i  == CHOOSE x \in at : \A y \in at : y <= x
    IN  IF at = {} THEN default
        ELSE IF i <= Len(row) THEN row[i] ELSE None

IsDigit(c) == c \in {"0", "1", "2", "3", "4", "5", "6", "7", "8", "9"}

\* int(text): [ok, nonzero]; surrounding whitespace and one sign are accepted
ToInt(text) ==
    LET t == Strip(text)
        u == IF t # <<>> /\ Head(t) \in {"+", "-"} THEN Tail(t) ELSE t
        ok == text # None /\ u # <<>> /\ \A i \in 1..Len(u) : IsDigit(u[i])
    IN  [ok |-> ok, nonzero |-> ok /\ \E i \in 1..Len(u) : u[i] # "0"]

ColListingId == <<"l", "i", "s", "t", "i", "n", "g", "_", "i", "d">>

ColField == <<"f", "i", "e", "l", "d">>

ColFilled == <<"f", "i", "l", "l", "e", "d">>

ColAnalyst == <<"a", "n", "a", "l", "y", "s", "t">>

ColCheckedAt == <<"c", "h", "e", "c", "k", "e", "d", "_", "a", "t">>

-----------------------------------------------------------------------------
(* export_observations: GET /export/observations.csv *)

\* checked_at.isoformat(): digits and the signs "-", ":", "T", "."; only the
\* row's place in time is kept
IsoFormat(o) == <<"T">> \o Concat([k \in 1..o |-> <<"1">>])

\* the joined rows, one per Observation whose Listing and Field exist
ExportRows(d) ==
    {o \in Ids(d.observation) :
        /\ d.observation[o].listing_id \in Ids(d.listing)
        /\ d.observation[o].field_id \in Ids(d.field)}

RECURSIVE WriteObservations(_, _)
WriteObservations(d, o) ==
    IF o > Len(d.observation) THEN <<>>
    ELSE (IF o \in ExportRows(d)
          THEN WriteRow(<<d.listing[d.observation[o].listing_id].listing_id_text,
                          d.field[d.observation[o].field_id].canonical,
                          IF d.observation[o].filled THEN <<"1">> ELSE <<"0">>,
                          d.observation[o].analyst,
                          IsoFormat(o)>>)
          ELSE <<>>)
         \o WriteObservations(d, o + 1)

\* the text of the response body
ExportObservations(d) ==
    WriteRow(<<ColListingId, ColField, ColFilled, ColAnalyst, ColCheckedAt>>)
    \o WriteObservations(d, 1)

-----------------------------------------------------------------------------
(* import_obs: POST /import/observations *)

\* the lookup with the two columns compared crosswise, which matches
\* nothing (a mutation)
ListingByTextBatch_Crossed(d, text, batch) ==
    First({i \in Ids(d.listing) :
              d.listing[i].listing_id_text = batch /\ d.listing[i].batch = text})

\* Listing.query.filter_by(listing_id_text=text, batch=batch).first()
ListingByTextBatch(d, text, batch) ==
    First({i \in Ids(d.listing) :
              d.listing[i].listing_id_text = text /\ d.listing[i].batch = batch})

\* One pass of the loop body.  m = [db, committed, failed]: Observations
\* beyond m.committed are added to the session and not yet committed; a
\* commit (which follows every Listing or Field insert) commits them too.
ImportRow(m, fieldnames, row, batch, analyst) ==
    LET lraw == DictGet(fieldnames, row, ColListingId, <<>>)
        fraw == DictGet(fieldnames, row, ColField, <<>>)
        n    == ToInt(DictGet(fieldnames, row, ColFilled, <<"0">>))
    IN  IF lraw = None \/ fraw = None \/ ~n.ok THEN [m EXCEPT !.failed = TRUE]
        ELSE LET listing_text == Strip(lraw)
                 field_name   == Strip(fraw)
             IN  IF listing_text = Blank \/ field_name = Blank THEN m
                 ELSE LET l   == ListingByTextBatch(m.db, listing_text, batch)
                          d1  == IF l # 0 THEN m.db
                                 ELSE [m.db EXCEPT !.listing =
                                          Append(@, ListingRow(batch, listing_text))]
                          lid == IF l # 0 THEN l ELSE Len(m.db.listing) + 1
                          r   == ResolveField(d1, field_name)
                          ob  == ObservationRow(lid, r.id, n.nonzero, field_name, analyst)
                      IN  [db |-> [r.db EXCEPT !.observation = Append(@, ob)],
                           committed |-> IF l = 0 \/ r.db # d1
                                         THEN Len(m.db.observation) ELSE m.committed,
                           failed |-> FALSE]

RECURSIVE ImportRows(_, _, _, _, _)
ImportRows(m, fieldnames, rows, batch, analyst) ==
    IF m.failed \/ rows = <<>> THEN m
    ELSE IF Head(rows) = <<>> THEN ImportRows(m, fieldnames, Tail(rows), batch, analyst)
    ELSE ImportRows(ImportRow(m, fieldnames, Head(rows), batch, analyst),
                    fieldnames, Tail(rows), batch, analyst)

\* the POST handler with a file: [db, status, ret], ret the number of
\* Observations the request leaves in the table
ImportObs(d, text, batch, analyst) ==
    LET rd == CsvReader(text)
        m0 == [db |-> d, committed |-> Len(d.observation), failed |-> FALSE]
        m  == IF rd.rows = <<>> THEN m0
              ELSE ImportRows(m0, Head(rd.rows), Tail(rd.rows), batch, analyst)
    IN  IF m.failed \/ rd.err
        THEN [db |-> [m.db EXCEPT !.observation = SubSeq(@, 1, m.committed)],
              status |-> 500, ret |-> m.committed - Len(d.observation)]
        ELSE [db |-> m.db, status |-> 200,
              ret |-> Len(m.db.observation) - Len(d.observation)]

-----------------------------------------------------------------------------
(* export_google_sheet_symbols: GET /export/google_sheet_symbols            *)
(*                                                                           *)
(* The spreadsheet service is modelled by what the handler asks of it: a    *)
(* document with or without the tab 'Single Family', the tab's cells by     *)
(* (column, row), and formulas that the service evaluates over the cells.   *)

\* the byte value of the characters that field names are made of (ORDER BY
\* canonical compares them)
CharCode(c) ==
    CASE c = "\t" -> 9 [] c = "\n" -> 10 [] c = "\r" -> 13 [] c = " " -> 32
      [] c = "\"" -> 34 [] c = "," -> 44 [] c = "a" -> 97 [] c = "b" -> 98
      [] c = "c" -> 99 [] c = "m" -> 109 [] c = "n" -> 110

\* s sorts before t
RECURSIVE TextLess(_, _)
TextLess(s, t) ==
    IF t = <<>> THEN FALSE
    ELSE IF s = <<>> THEN TRUE
    ELSE IF Head(s) = Head(t) THEN TextLess(Tail(s), Tail(t))
    ELSE CharCode(Head(s)) < CharCode(Head(t))

\* build_listing_order(batch): the ids of the batch's Listings by created_at
RECURSIVE BuildListingOrderFrom(_, _, _)
BuildListingOrderFrom(d, batch, l) ==
    IF l > Len(d.listing) THEN <<>>
    ELSE (IF d.listing[l].batch = batch THEN <<l>> ELSE <<>>)
         \o BuildListingOrderFrom(d, batch, l + 1)

BuildListingOrder(d, batch) == BuildListingOrderFrom(d, batch, 1)

\* Field.query.order_by(Field.canonical.asc()).all(): the ids left in S, sorted
RECURSIVE FieldsByCanonicalFrom(_, _)
FieldsByCanonicalFrom(d, S) ==
    IF S = {} THEN <<>>
    ELSE LET f == CHOOSE x \in S :
                    \A y \in S : y = x \/ TextLess(d.field[x].canonical, d.field[y].canonical)
                                 \/ (d.field[x].canonical = d.field[y].canonical /\ x < y)
         IN  <<f>> \o FieldsByCanonicalFrom(d, S \ {f})

FieldsByCanonical(d) == FieldsByCanonicalFrom(d, Ids(d.field))

\* str(i)
RECURSIVE DecimalText(_)
DecimalText(i) ==
    LET digit == <<"0", "1", "2", "3", "4", "5", "6", "7", "8", "9">>[(i % 10) + 1]
    IN  IF i < 10 THEN <<digit>> ELSE DecimalText(i \div 10) \o <<digit>>

\* f"L{i} - {l.listing_id_text}"
ListingHeader(d, i, l) ==
    <<"L">> \o DecimalText(i) \o <<" ", "-", " ">> \o d.listing[l].listing_id_text

HeaderFieldName == <<"F", "i", "e", "l", "d", " ", "N", "a", "m", "e">>

HeaderFilledCount == <<"F", "i", "l", "l", "e", "d", " ", "C", "o", "u", "n", "t">>

HeaderEmptyCount == <<"E", "m", "p", "t", "y", " ", "C", "o", "u", "n", "t">>

HeaderPctEmpty == <<"%", " ", "E", "m", "p", "t", "y">>

\* 'Remove? (>=6)', the comparison sign written as one character in the source
HeaderRemove == <<"R", "e", "m", "o", "v", "e", "?", " ", "(", ">", "=", "6", ")">>

\* the three glyphs of a cell: check mark, cross mark, dash
SymbolFilled == <<"CHECK">>

SymbolEmpty == <<"CROSS">>

SymbolUnobserved == <<"DASH">>

\* header_row
HeaderRow(d, listings) ==
    <<HeaderFieldName>>
    \o [i \in 1..Len(listings) |-> ListingHeader(d, i, listings[i])]
    \o <<HeaderFilledCount, HeaderEmptyCount, HeaderPctEmpty, HeaderRemove>>

\* obs_map.get((field.id, l.id)): the dict comprehension keeps, for a key
\* met several times, the Observation met last; 0 stands for None
ObsMapGet(d, f, l) ==
    LET S == {o \in Ids(d.observation) :
                 d.observation[o].field_id = f /\ d.observation[o].listing_id = l}
    IN  IF S = {} THEN 0 ELSE CHOOSE o \in S : \A p \in S : p <= o

\* the symbol of one cell, a pair without Observation shown as empty (a mutation)
Symbol_NoneAsEmpty(d, f, l) ==
    LET obs == ObsMapGet(d, f, l)
    IN  IF obs # 0 /\ d.observation[obs].filled THEN SymbolFilled ELSE SymbolEmpty

\* the symbol of one cell
Symbol(d, f, l) ==
    LET obs == ObsMapGet(d, f, l)
    IN  IF obs = 0 THEN SymbolUnobserved
        ELSE IF d.observation[obs].filled THEN SymbolFilled ELSE SymbolEmpty

\* rows: per Field its canonical name and one symbol per Listing
MatrixRows(d, fields, listings) ==
    [i \in 1..Len(fields) |->
        <<d.field[fields[i]].canonical>>
        \o [j \in 1..Len(listings) |-> Symbol(d, fields[i], listings[j])]]

Letters == <<"A", "B", "C", "D", "E", "F", "G", "H", "I", "J", "K", "L", "M",
             "N", "O", "P", "Q", "R", "S", "T", "U", "V", "W", "X", "Y", "Z">>

\* col_idx_to_letter(idx)
RECURSIVE ColIdxToLetter(_)
ColIdxToLetter(idx) ==
    IF idx > 0
    THEN ColIdxToLetter((idx - 1) \div 26) \o <<Letters[((idx - 1) % 26) + 1]>>
    ELSE <<>>

\* the service reading the column letters of an A1 address
RECURSIVE ColumnIndex(_)
ColumnIndex(letters) ==
    IF letters = <<>> THEN 0
    ELSE ColumnIndex(SubSeq(letters, 1, Len(letters) - 1)) * 26
         + (CHOOSE k \in 1..26 : Letters[k] = letters[Len(letters)])

\* an A1 address: column letters and row number
A1(letters, row) == [col |-> letters, row |-> row]

NoRef == A1(<<>>, 0)

\* what a cell holds: a text, or one of the four formulas of a row
TextCell(v) == [t |-> "text", v |-> v, a |-> NoRef, b |-> NoRef]

BlankCell == [t |-> "blank", v |-> <<>>, a |-> NoRef, b |-> NoRef]

\* =COUNTIF(from:to, criterion)
CountIfFormula(from, to, criterion) ==
    [t |-> "COUNTIF", v |-> criterion, a |-> from, b |-> to]

\* =IF((filled+empty)=0,0,empty/(filled+empty))
PctFormula(filled, empty) == [t |-> "PCT", v |-> <<>>, a |-> filled, b |-> empty]

\* =IF(AND(empty>=6,(filled+empty)>=10),"YES","NO")
\* the two numbers written into the last formula
RemoveMinEmpty == 6

RemoveMinSample == 10

\* the last formula with the two cell references exchanged (a mutation)
RemoveFormula_Exchanged(filled, empty) ==
    [t |-> "REMOVE", v |-> <<RemoveMinEmpty, RemoveMinSample>>, a |-> empty, b |-> filled]

RemoveFormula(filled, empty) ==
    [t |-> "REMOVE", v |-> <<RemoveMinEmpty, RemoveMinSample>>, a |-> filled, b |-> empty]

\* the calls of the handler on the worksheet
\* ws.update(label, values): the values laid out from the anchor cell
Update(cells, label, values) ==
    LET col0 == ColumnIndex(label.col)
        new  == {<<col0 + j - 1, label.row + i - 1>> :
                    i \in 1..Len(values), j \in 1..Len(values[1])}
    IN  [k \in DOMAIN cells \cup new |->
            IF k \in new
            THEN TextCell(values[k[2] - label.row + 1][k[1] - col0 + 1])
            ELSE cells[k]]

\* ws.update_acell(label, formula)
UpdateAcell(cells, label, formula) ==
    LET k == <<ColumnIndex(label.col), label.row>>
    IN  [x \in DOMAIN cells \cup {k} |-> IF x = k THEN formula ELSE cells[x]]

\* the service evaluating the cells
CellAt(cells, col, row) ==
    IF <<col, row>> \in DOMAIN cells THEN cells[<<col, row>>] ELSE BlankCell

CountIf(cells, c) ==
    Cardinality({k \in (ColumnIndex(c.a.col)..ColumnIndex(c.b.col)) \X (c.a.row..c.b.row) :
                    CellAt(cells, k[1], k[2]).t = "text"
                    /\ CellAt(cells, k[1], k[2]).v = c.v})

\* the number a referenced cell shows (a cell without a count shows 0)
NumberAt(cells, ref) ==
    LET c == CellAt(cells, ColumnIndex(ref.col), ref.row)
    IN  IF c.t = "COUNTIF" THEN CountIf(cells, c) ELSE 0

\* the value a cell shows: a text, a count, a ratio [num, den], "YES" / "NO"
CellValue(cells, col, row) ==
    LET c == CellAt(cells, col, row)
        filled == NumberAt(cells, c.a)
        empty  == NumberAt(cells, c.b)
    IN  CASE c.t = "COUNTIF" -> CountIf(cells, c)
          [] c.t = "PCT" ->
                IF filled + empty = 0 THEN [num |-> 0, den |-> 1]
                ELSE [num |-> empty, den |-> filled + empty]
          [] c.t = "REMOVE" ->
                IF empty >= c.v[1] /\ filled + empty >= c.v[2]
                THEN "YES" ELSE "NO"
          [] OTHER -> c.v

\* the document before any export, no call made and no response given
NoSheet == [tab |-> FALSE, cells |-> <<>>, calls |-> <<>>,
            batch |-> "", status |-> 0, msg |-> "", row |-> 0]

Call(op, at) == [op |-> op, at |-> at]

\* the return of the handler: status, message and the row the message names
Respond(sh, status, msg, row) == [sh EXCEPT !.status = status, !.msg = msg, !.row = row]

NoFailure == [phase |-> "none", row |-> 0, cell |-> 0]

\* the four update_acell calls of a row, in the order they are made
FormulasOfRow(row_num, n_listings) ==
    LET filled_col_letter     == ColIdxToLetter(1 + n_listings + 1)
        empty_col_letter      == ColIdxToLetter(1 + n_listings + 2)
        pct_col_letter        == ColIdxToLetter(1 + n_listings + 3)
        remove_col_letter     == ColIdxToLetter(1 + n_listings + 4)
        first_list_col_letter == ColIdxToLetter(2)
        last_list_col_letter  == ColIdxToLetter(1 + n_listings)
        filled == A1(filled_col_letter, row_num)
        empty  == A1(empty_col_letter, row_num)
    IN  << [at |-> filled,
            f  |-> CountIfFormula(A1(first_list_col_letter, row_num),
                                  A1(last_list_col_letter, row_num), SymbolFilled)],
           [at |-> empty,
            f  |-> CountIfFormula(A1(first_list_col_letter, row_num),
                                  A1(last_list_col_letter, row_num), SymbolEmpty)],
           [at |-> A1(pct_col_letter, row_num), f |-> PctFormula(filled, empty)],
           [at |-> A1(remove_col_letter, row_num), f |-> RemoveFormula(filled, empty)] >>

\* the calls k..4 of one row; the call the failure names raises
RECURSIVE WriteRowFormulas(_, _, _, _)
WriteRowFormulas(sh, fs, k, failCell) ==
    IF k > Len(fs) THEN sh
    ELSE LET called == [sh EXCEPT !.calls = Append(@, Call("update_acell", fs[k].at))]
         IN  IF k = failCell THEN called
             ELSE WriteRowFormulas(
                      [called EXCEPT !.cells = UpdateAcell(@, fs[k].at, fs[k].f)],
                      fs, k + 1, failCell)

\* for i in range(len(rows)), from i on
RECURSIVE WriteFormulas(_, _, _, _, _)
WriteFormulas(sh, i, n_rows, n_listings, fail) ==
    IF i >= n_rows THEN Respond(sh, 200, "Exported", 0)
    ELSE LET row_num == 2 + i
             failing == fail.phase = "formula" /\ fail.row = row_num
             sh2     == WriteRowFormulas(sh, FormulasOfRow(row_num, n_listings), 1,
                                         IF failing THEN fail.cell ELSE 0)
         IN  IF failing THEN Respond(sh2, 500, "error writing formulas at row", row_num)
             ELSE WriteFormulas(sh2, i + 1, n_rows, n_listings, fail)

\* the handler from the first write on: header, rows, formulas
WriteSheet(sh, header_row, rows, n_listings, fail) ==
    LET h  == [sh EXCEPT !.calls = Append(@, Call("update", A1(<<"A">>, 1)))]
        hw == [h EXCEPT !.cells = Update(@, A1(<<"A">>, 1), <<header_row>>)]
        r  == [hw EXCEPT !.calls = Append(@, Call("update", A1(<<"A">>, 2)))]
        rw == [r EXCEPT !.cells = Update(@, A1(<<"A">>, 2), rows)]
    IN  IF fail.phase = "header" THEN Respond(h, 500, "error writing header", 0)
        ELSE IF fail.phase = "rows" THEN Respond(r, 500, "error writing rows", 0)
        ELSE WriteFormulas(rw, 0, Len(rows), n_listings, fail)

\* the handler from the tab's replacement on: the tab is looked up and
\* deleted (what this raises is passed over), then added; adding a tab
\* whose title the document still holds is refused
ReplaceTab(sh, header_row, rows, n_listings, fail) ==
    LET looked  == [sh EXCEPT !.calls = Append(@, Call("worksheet", NoRef))]
        deleted == IF ~sh.tab THEN looked
                   ELSE IF fail.phase = "del_worksheet"
                        THEN [looked EXCEPT !.calls = Append(@, Call("del_worksheet", NoRef))]
                   ELSE [looked EXCEPT !.calls = Append(@, Call("del_worksheet", NoRef)),
                                       !.tab = FALSE, !.cells = <<>>]
        adding  == [deleted EXCEPT !.calls = Append(@, Call("add_worksheet", NoRef))]
    IN  IF deleted.tab \/ fail.phase = "add_worksheet"
        THEN Respond(adding, 500, "sheet creation error", 0)
        ELSE WriteSheet([adding EXCEPT !.tab = TRUE], header_row, rows, n_listings, fail)

\* the handler with the Listings of the batch looked for only after the tab
\* was replaced (a mutation)
ExportGoogleSheetSymbols_ListingsCheckedLate(d, sh, req, fail) ==
    LET start    == [sh EXCEPT !.calls = <<>>, !.batch = req.batch]
        opened   == [start EXCEPT !.calls = <<Call("open_by_key", NoRef)>>]
        replaced == [opened EXCEPT !.calls = @ \o <<Call("worksheet", NoRef),
                                                     Call("add_worksheet", NoRef)>>,
                                   !.tab = TRUE, !.cells = <<>>]
        listings == BuildListingOrder(d, req.batch)
        fields   == FieldsByCanonical(d)
    IN  IF ~req.gspread THEN Respond(start, 500, "gspread/pandas not installed", 0)
        ELSE IF ~req.sheet_id THEN Respond(start, 400, "missing sheet_id", 0)
        ELSE IF fail.phase = "open" THEN Respond(opened, 500, "gspread open error", 0)
        ELSE IF listings = <<>> THEN Respond(replaced, 400, "No listings found for batch", 0)
        ELSE IF fields = <<>> THEN Respond(opened, 400, "No fields found.", 0)
        ELSE ReplaceTab(opened, HeaderRow(d, listings), MatrixRows(d, fields, listings),
                        Len(listings), fail)

\* the handler: the document after it, with its calls and its response.
\* req = [gspread, sheet_id, batch]: whether the libraries were imported,
\* whether a sheet_id was given, the batch asked for
ExportGoogleSheetSymbols(d, sh, req, fail) ==
    LET start    == [sh EXCEPT !.calls = <<>>, !.batch = req.batch]
        opened   == [start EXCEPT !.calls = <<Call("open_by_key", NoRef)>>]
        listings == BuildListingOrder(d, req.batch)
        fields   == FieldsByCanonical(d)
    IN  IF ~req.gspread THEN Respond(start, 500, "gspread/pandas not installed", 0)
        ELSE IF ~req.sheet_id THEN Respond(start, 400, "missing sheet_id", 0)
        ELSE IF fail.phase = "open" THEN Respond(opened, 500, "gspread open error", 0)
        ELSE IF listings = <<>> THEN Respond(opened, 400, "No listings found for batch", 0)
        ELSE IF fields = <<>> THEN Respond(opened, 400, "No fields found.", 0)
        ELSE ReplaceTab(opened, HeaderRow(d, listings), MatrixRows(d, fields, listings),
                        Len(listings), fail)

-----------------------------------------------------------------------------
(* Requests: the inputs the handlers are driven with *)

Batches == {"b1", "b2"}

\* analyst of the JSON body, and of the two forms (their defaults differ:
\* 'unknown', 'bulk_user', 'import_user')
Analysts == {<<"j", ",", "d">>}

BulkAnalysts == {<<"k">>}

ImportAnalysts == {<<"i">>}

\* listing_id of the JSON body: blank, padded, and one the csv writer must quote
ListingTexts == {<<" ">>, <<" ", "m">>, <<"n", ",">>}

\* field_text: blank, padded, and one holding quotechar and line feed
FieldTexts == {<<" ">>, <<"a", " ">>, <<"b", "\"", "\n">>}

Obs(text, filled) == [field_text |-> text, filled |-> filled]

\* observations of the JSON body: none, one, two fields, a blank entry
\* among others, the same field twice around a blank entry
ObservationLists ==
    { <<>>,
      <<Obs(<<"a", " ">>, TRUE)>>,
      <<Obs(<<"b", "\"", "\n">>, FALSE)>>,
      <<Obs(<<" ">>, TRUE), Obs(<<"a", " ">>, FALSE)>>,
      <<Obs(<<"a", " ">>, FALSE), Obs(<<"b", "\"", "\n">>, TRUE)>>,
      <<Obs(<<"a", " ">>, TRUE), Obs(<<>>, FALSE), Obs(<<" ", "a">>, FALSE)>> }

AddListingRequests ==
    [listing_id : ListingTexts, observations : ObservationLists, analyst : Analysts]

ImportHeader == WriteRow(<<ColListingId, ColField, ColFilled>>)

\* a listing id repeated (once padded), a (listing, field) pair repeated,
\* a row without field name, an empty line
ImportFileRepeats ==
    ImportHeader
    \o <<" ", "m", ",", "a", ",", "1", "\n">>
    \o <<"\n">>
    \o <<"m", ",", " ", "a", ",", "0", "\n">>
    \o <<"m", ",", ",", "1", "\n">>

\* quoted cells, then a row whose filled cell is no number
ImportFileBadNumber ==
    ImportHeader
    \o <<"\"", "n", ",", "\"", ",", "a", ",", "+", "2", "\r", "\n">>
    \o <<"m", ",", "a", ",", "x", "\r", "\n">>

\* a row shorter than the header
ImportFileShortRow ==
    ImportHeader
    \o <<"m", ",", "a", "\n">>

\* one row
ImportFileOne ==
    ImportHeader
    \o <<"m", ",", "a", ",", "0", "\n">>

ImportFiles == {ImportFileOne, ImportFileRepeats, ImportFileBadNumber, ImportFileShortRow}

Fits(d) == Len(d.listing) + Len(d.observation) <= MaxRows

-----------------------------------------------------------------------------
(* Requests served at the same time.  Each caller has its own session; what *)
(* it added to the session is seen by the others once it commits.  A step   *)
(* is one query or one insert with its commit.                               *)

\* two requests are served at the same time
Callers == {"c1", "c2"}

Idle == [pc |-> "idle", kind |-> "", batch |-> "", analyst |-> <<>>,
         fieldnames |-> <<>>, rows |-> <<>>, rderr |-> FALSE, lid |-> 0,
         text |-> <<>>, name |-> <<>>, filled |-> FALSE, pending |-> <<>>]

\* db.session.commit(): the session's pending Observations reach the table
Commit(d, pending) == [d EXCEPT !.observation = @ \o pending]

\* the requests the callers make
ConcBatches == {"b1"}

ConcFieldTexts == {<<"a", " ">>, <<"b", "\"", "\n">>}

ConcAddListingRequests ==
    [listing_id : {<<" ", "m">>},
     observations : {<<Obs(<<" ">>, TRUE), Obs(<<"a", " ">>, FALSE)>>},
     analyst : Analysts]

ConcImportFiles == {ImportFileOne, ImportFileBadNumber}

\* find_or_create_field up to its query
BeginResolve(c, name) ==
    /\ callers[c].pc = "idle"
    /\ Strip(name) # Blank
    /\ callers' = [callers EXCEPT ![c] =
          [Idle EXCEPT !.pc = "lookup_field", !.kind = "resolve", !.name = Strip(name)]]
    /\ UNCHANGED <<db, importsOnly, sheet>>

\* add_listing up to its loop: the Listing is inserted and committed
BeginAddListing(c, batch, data) ==
    /\ callers[c].pc = "idle"
    /\ Strip(data.listing_id) # Blank
    /\ Len(db.listing) + Len(db.observation) < MaxRows
    /\ db' = [db EXCEPT !.listing = Append(@, ListingRow(batch, Strip(data.listing_id)))]
    /\ callers' = [callers EXCEPT ![c] =
          [Idle EXCEPT !.pc = "loop", !.kind = "add_listing", !.batch = batch,
                       !.analyst = data.analyst, !.rows = data.observations,
                       !.lid = Len(db.listing) + 1]]
    /\ importsOnly' = FALSE
    /\ UNCHANGED sheet

\* import_obs up to its loop: DictReader has taken the header
BeginImport(c, text, batch, analyst) ==
    /\ callers[c].pc = "idle"
    /\ CsvReader(text).rows # <<>>
    /\ callers' = [callers EXCEPT ![c] =
          [Idle EXCEPT !.pc = "loop", !.kind = "import", !.batch = batch,
                       !.analyst = analyst,
                       !.fieldnames = Head(CsvReader(text).rows),
                       !.rows = Tail(CsvReader(text).rows),
                       !.rderr = CsvReader(text).err]]
    /\ UNCHANGED <<db, importsOnly, sheet>>

\* the loop of add_listing at its head: the last commit, a skipped entry,
\* or an entry on its way to the Field query
LoopAddListing(c) ==
    LET me == callers[c]
    IN  /\ me.pc = "loop" /\ me.kind = "add_listing"
        /\ IF me.rows = <<>>
           THEN /\ Len(db.listing) + Len(db.observation) + Len(me.pending) <= MaxRows
                /\ db' = Commit(db, me.pending)
                /\ callers' = [callers EXCEPT ![c] = Idle]
           ELSE /\ db' = db
                /\ callers' = [callers EXCEPT ![c] =
                      IF Strip(Head(me.rows).field_text) = Blank
                      THEN [me EXCEPT !.rows = Tail(@)]
                      ELSE [me EXCEPT !.pc = "lookup_field",
                                      !.name = Strip(Head(me.rows).field_text),
                                      !.filled = Head(me.rows).filled]]
        /\ UNCHANGED <<importsOnly, sheet>>

\* the loop of import_obs at its head, up to and with the Listing query
LoopImport(c) ==
    LET me   == callers[c]
        row  == Head(me.rows)
        lraw == DictGet(me.fieldnames, row, ColListingId, <<>>)
        fraw == DictGet(me.fieldnames, row, ColField, <<>>)
        n    == ToInt(DictGet(me.fieldnames, row, ColFilled, <<"0">>))
        l    == ListingByTextBatch(db, Strip(lraw), me.batch)
    IN  /\ me.pc = "loop" /\ me.kind = "import"
        /\ IF me.rows = <<>>
           THEN /\ Len(db.listing) + Len(db.observation) + Len(me.pending) <= MaxRows
                /\ db' = IF me.rderr THEN db ELSE Commit(db, me.pending)
                /\ callers' = [callers EXCEPT ![c] = Idle]
           ELSE /\ db' = db
                /\ callers' = [callers EXCEPT ![c] =
                      IF row = <<>> THEN [me EXCEPT !.rows = Tail(@)]
                      ELSE IF lraw = None \/ fraw = None \/ ~n.ok THEN Idle
                      ELSE IF Strip(lraw) = Blank \/ Strip(fraw) = Blank
                           THEN [me EXCEPT !.rows = Tail(@)]
                      ELSE [me EXCEPT !.pc = IF l # 0 THEN "lookup_field" ELSE "insert_listing",
                                      !.lid = l, !.text = Strip(lraw),
                                      !.name = Strip(fraw), !.filled = n.nonzero]]
        /\ UNCHANGED <<importsOnly, sheet>>

\* import_obs: the Listing's insert and commit, after a query that found none
InsertListing(c) ==
    LET me == callers[c]
    IN  /\ me.pc = "insert_listing"
        /\ Len(db.listing) + Len(db.observation) + Len(me.pending) < MaxRows
        /\ db' = Commit([db EXCEPT !.listing = Append(@, ListingRow(me.batch, me.text))],
                        me.pending)
        /\ callers' = [callers EXCEPT ![c] =
              [me EXCEPT !.pc = "lookup_field", !.lid = Len(db.listing) + 1,
                         !.pending = <<>>]]
        /\ UNCHANGED <<importsOnly, sheet>>

\* the Field query of the three handlers
LookupField(c) ==
    LET me == callers[c]
        f  == FieldByCanonical(db, me.name)
        ob == ObservationRow(me.lid, f, me.filled, me.name, me.analyst)
    IN  /\ me.pc = "lookup_field"
        /\ callers' = [callers EXCEPT ![c] =
              IF f = 0 THEN [me EXCEPT !.pc = "insert_field"]
              ELSE IF me.kind = "resolve" THEN Idle
              ELSE [me EXCEPT !.pc = "loop", !.rows = Tail(@),
                              !.pending = Append(@, ob)]]
        /\ UNCHANGED <<db, importsOnly, sheet>>

\* the Field's insert and commit, after a query that found none; the
\* database refuses a second row of the same canonical name, the request
\* ends with the error and what its session held is dropped
InsertField(c) ==
    LET me == callers[c]
        ob == ObservationRow(me.lid, Len(db.field) + 1, me.filled, me.name, me.analyst)
    IN  /\ me.pc = "insert_field"
        /\ IF FieldInsertAllowed(db, me.name)
           THEN /\ Len(db.listing) + Len(db.observation) + Len(me.pending) <= MaxRows
                /\ db' = Commit(FieldInsert(db, me.name), me.pending)
                /\ callers' = [callers EXCEPT ![c] =
                      IF me.kind = "resolve" THEN Idle
                      ELSE [me EXCEPT !.pc = "loop", !.rows = Tail(@),
                                      !.pending = <<ob>>]]
           ELSE /\ db' = db
                /\ callers' = [callers EXCEPT ![c] = Idle]
        /\ importsOnly' = (importsOnly /\ me.kind = "import")
        /\ UNCHANGED sheet

ConcNext ==
    \E c \in Callers :
        \/ \E name \in ConcFieldTexts : BeginResolve(c, name)
        \/ \E batch \in ConcBatches, data \in ConcAddListingRequests :
              BeginAddListing(c, batch, data)
        \/ \E text \in ConcImportFiles, batch \in ConcBatches, analyst \in ImportAnalysts :
              BeginImport(c, text, batch, analyst)
        \/ LoopAddListing(c)
        \/ LoopImport(c)
        \/ InsertListing(c)
        \/ LookupField(c)
        \/ InsertField(c)

-----------------------------------------------------------------------------
(* The requests as actions; each handler runs from start to end *)

Init ==
    /\ db = EmptyDb
    /\ importsOnly = TRUE
    /\ sheet = NoSheet
    /\ callers = [c \in Callers |-> Idle]

find_or_create_field(name) ==
    /\ db' = FindOrCreateField(db, name).db
    /\ importsOnly' = FALSE
    /\ UNCHANGED <<sheet, callers>>

add_listing(batch, data) ==
    /\ db' = AddListing(db, batch, data).db
    /\ importsOnly' = FALSE
    /\ UNCHANGED <<sheet, callers>>

bulk_mark_empty(field_id, analyst) ==
    /\ db' = BulkMarkEmpty(db, field_id, analyst).db
    /\ importsOnly' = FALSE
    /\ UNCHANGED <<sheet, callers>>

\* a GET: the response is BatchSummary(db, batch), the tables stay as they are
batch_summary(batch) ==
    /\ IsFiniteSet(BatchSummary(db, batch))
    /\ UNCHANGED vars

\* a GET: the response is ExportObservations(db), the tables stay as they are
export_observations ==
    /\ Len(ExportObservations(db)) > 0
    /\ UNCHANGED vars

import_obs(text, batch, analyst) ==
    /\ db' = ImportObs(db, text, batch, analyst).db
    /\ UNCHANGED <<importsOnly, sheet, callers>>

\* a GET: the response is FieldDetail(db, field_id), the tables stay as they are
field_detail(field_id) ==
    /\ FieldDetail(db, field_id).status \in {200, 404}
    /\ UNCHANGED vars

\* a GET that writes the spreadsheet and leaves the tables as they are
export_google_sheet_symbols(req, fail) ==
    /\ sheet' = ExportGoogleSheetSymbols(db, sheet, req, fail)
    /\ UNCHANGED <<db, importsOnly, callers>>

\* the rows stay within the bound
Bounded(A) == A /\ Fits(db')

Next ==
    \/ \E name \in FieldTexts : find_or_create_field(name)
    \/ \E batch \in Batches, data \in AddListingRequests :
          Bounded(add_listing(batch, data))
    \/ \E field_id \in 1..(Len(db.field) + 1), analyst \in BulkAnalysts :
          Bounded(bulk_mark_empty(field_id, analyst))
    \/ \E field_id \in 1..(Len(db.field) + 1) : field_detail(field_id)
    \/ \E batch \in Batches : batch_summary(batch)
    \/ export_observations
    \/ \E text \in ImportFiles, batch \in Batches, analyst \in ImportAnalysts :
          Bounded(import_obs(text, batch, analyst))

Spec == Init /\ [][Next]_vars

\* the handlers interleaved query by query
ConcSpec == Init /\ [][ConcNext]_vars

-----------------------------------------------------------------------------
(* The matrix export.  The export reads the tables and writes the           *)
(* spreadsheet, the other handlers never read the spreadsheet; the tables   *)
(* are filled first and exported from every state they reach.               *)

ExportRequests == [gspread : BOOLEAN, sheet_id : BOOLEAN, batch : Batches]

\* where the spreadsheet service may raise: nowhere, or in one of the calls
\* the request gets to (of a row's four formulas, the third)
Failures(d, req) ==
    IF req.gspread /\ req.sheet_id
    THEN {NoFailure}
         \cup [phase : {"open", "del_worksheet", "add_worksheet", "header", "rows"},
               row : {0}, cell : {0}]
         \cup [phase : {"formula"}, row : 2..(1 + Len(d.field)), cell : {3}]
    ELSE {NoFailure}

SheetAddListingRequests ==
    [listing_id : {<<" ", "m">>},
     observations : {<<>>,
                     <<Obs(<<"a", " ">>, TRUE)>>,
                     <<Obs(<<"a", " ">>, FALSE)>>,
                     <<Obs(<<"b", "\"", "\n">>, FALSE), Obs(<<"b", "\"", "\n">>, TRUE)>>},
     analyst : Analysts]

SheetNext ==
    \/ /\ sheet = NoSheet
       /\ \/ find_or_create_field(<<"c">>)
          \/ \E batch \in Batches, data \in SheetAddListingRequests :
                Bounded(add_listing(batch, data))
    \/ \E req \in ExportRequests : \E fail \in Failures(db, req) :
          export_google_sheet_symbols(req, fail)

SheetSpec == Init /\ [][SheetNext]_vars

\* one batch, one observed Field, up to MaxMatrixListings Listings of which
\* at most one has no Observation; a second Field may be made first
RemovalAddListingRequests ==
    [listing_id : {<<"m">>},
     observations : {<<>>, <<Obs(<<"a">>, TRUE)>>, <<Obs(<<"a">>, FALSE)>>},
     analyst : Analysts]

Unobserved(d) ==
    {l \in Ids(d.listing) : \A o \in Ids(d.observation) : d.observation[o].listing_id # l}

RemovalNext ==
    \/ /\ sheet = NoSheet
       /\ \/ /\ db = EmptyDb
             /\ find_or_create_field(<<"b">>)
          \/ /\ Len(db.listing) < MaxMatrixListings
             /\ \E data \in RemovalAddListingRequests :
                   /\ data.observations = <<>> => Unobserved(db) = {}
                   /\ add_listing("b1", data)
    \/ export_google_sheet_symbols([gspread |-> TRUE, sheet_id |-> TRUE, batch |-> "b1"],
                                   NoFailure)

RemovalSpec == Init /\ [][RemovalNext]_vars

-----------------------------------------------------------------------------
(* Properties *)

\* every character of the text is whitespace (the empty text included)
IsBlankText(text) == \A i \in 1..Len(text) : IsSpace(text[i])

\* C1: for any non-blank field name and any store state, resolving the name
\* twice in succession (find_or_create_field, or the inline find-or-create
\* of add_listing / import_obs) returns the same Field id both times, and
\* the second resolution adds no Field row.
C1_ResolveTwiceSameField ==
    \A name \in FieldTexts :
        ~IsBlankText(name) =>
            LET r1 == FindOrCreateField(db, name)
                r2 == FindOrCreateField(r1.db, name)
                i1 == ResolveField(db, Strip(name))
                i2 == ResolveField(i1.db, Strip(name))
            IN  /\ r1.id \in Ids(r1.db.field)
                /\ r2.id = r1.id
                /\ r2.db = r1.db
                /\ i2.id = i1.id
                /\ i2.db = i1.db

\* C1 witness: a store in which the name was resolved before, among other
\* Fields, and in which another name is still to be created
C1_Witness ==
    /\ Len(db.field) = 1
    /\ \E name \in FieldTexts :
          /\ ~IsBlankText(name)
          /\ FindOrCreateField(db, name).id = 1
    /\ \E name \in FieldTexts :
          /\ ~IsBlankText(name)
          /\ FindOrCreateField(db, name).id = 2

\* the number of entries of a request whose field_text is blank
RECURSIVE BlankCount(_)
BlankCount(obs) ==
    IF obs = <<>> THEN 0
    ELSE (IF IsBlankText(Head(obs).field_text) THEN 1 ELSE 0) + BlankCount(Tail(obs))

\* C2: for any store state, an add_listing call with a non-blank listing id
\* and N observations of which exactly K have a blank field_text adds
\* exactly N-K Observation rows and exactly one Listing row, and every added
\* Observation references that new Listing.
C2_AddListingCounts ==
    \A batch \in Batches, data \in AddListingRequests :
        ~IsBlankText(data.listing_id) =>
            LET after == AddListing(db, batch, data).db
            IN  /\ Len(after.listing) = Len(db.listing) + 1
                /\ Len(after.observation) = Len(db.observation)
                      + Len(data.observations) - BlankCount(data.observations)
                /\ \A o \in (Len(db.observation) + 1)..Len(after.observation) :
                      after.observation[o].listing_id = Len(after.listing)

\* C2 witness: a Listing recorded after another one, with two Observations
\* (the request of three entries, one of them blank)
C2_Witness ==
    /\ Len(db.listing) = 2
    /\ Len(db.observation) = 2
    /\ \A o \in Ids(db.observation) :
          db.observation[o].listing_id = 2 /\ db.observation[o].analyst \in Analysts

\* C3: for any store state and any existing field id, running
\* bulk_mark_empty twice in succession creates Observations only on the
\* first run: the second run's count is 0 and it leaves the Observation
\* table unchanged.
C3_BulkMarkEmptyTwice ==
    \A field_id \in Ids(db.field), analyst \in BulkAnalysts :
        LET r1 == BulkMarkEmpty(db, field_id, analyst)
            r2 == BulkMarkEmpty(r1.db, field_id, analyst)
        IN  /\ r2.ret = 0
            /\ r2.db = r1.db

\* C3 witness: bulk_mark_empty has filled the gaps of one Field for two
\* Listings, and another Field still has gaps
C3_Witness ==
    /\ Len(db.listing) = 2
    /\ \E f \in Ids(db.field) :
          /\ \A l \in Ids(db.listing) : ObservationFor(db, l, f) # 0
          /\ \E o \in Ids(db.observation) :
                db.observation[o].field_id = f /\ db.observation[o].analyst \in BulkAnalysts
    /\ \E f \in Ids(db.field), analyst \in BulkAnalysts :
          BulkMarkEmpty(db, f, analyst).ret > 0

\* the Observations of a Field whose Listing belongs to the batch
ObservationsInBatch(d, batch, f) ==
    {o \in Ids(d.observation) :
        d.observation[o].field_id = f
        /\ \E l \in Ids(d.listing) :
              l = d.observation[o].listing_id /\ d.listing[l].batch = batch}

\* C4: in every reachable store state and for every batch, each row of
\* batch_summary(batch) has filled + empty = sample, and sample is the
\* number of Observations of that Field whose Listing belongs to the batch.
C4_SummaryCounts ==
    \A batch \in Batches :
        \A r \in BatchSummary(db, batch) :
            /\ r.filled + r.empty = r.sample
            /\ r.sample = Cardinality(ObservationsInBatch(db, batch, r.field_id))

\* C4 witness: a Field observed in both batches, filled in one and empty in
\* the other, so that the batch's row counts a part of its Observations
C4_Witness ==
    \E r \in BatchSummary(db, "b1") :
        /\ r.sample = 1
        /\ r.filled = 1
        /\ \E q \in BatchSummary(db, "b2") :
              q.field_id = r.field_id /\ q.empty >= 1

\* the (listing text, field canonical, filled) triples of a store
Triples(d) ==
    {<<d.listing[d.observation[o].listing_id].listing_id_text,
       d.field[d.observation[o].field_id].canonical,
       d.observation[o].filled>> : o \in Ids(d.observation)}

\* C5: for every reachable store state, exporting all observations to CSV
\* and importing that CSV into an empty store under one batch yields a store
\* with the same set of (listing text, field canonical, filled) triples.
C5_CsvRoundTrip ==
    \A batch \in Batches, analyst \in ImportAnalysts :
        LET r == ImportObs(EmptyDb, ExportObservations(db), batch, analyst)
        IN  /\ r.status = 200
            /\ Triples(r.db) = Triples(db)

\* C5 witness: a store whose export holds cells the writer must quote
\* (delimiter, quotechar, line feed), a listing text recorded twice and both
\* values of filled
C5_Witness ==
    /\ \E o \in Ids(db.observation) :
          /\ QuoteChar \in {db.field[db.observation[o].field_id].canonical[i] :
                              i \in 1..Len(db.field[db.observation[o].field_id].canonical)}
          /\ Delimiter \in {db.listing[db.observation[o].listing_id].listing_id_text[i] :
                              i \in 1..Len(db.listing[db.observation[o].listing_id].listing_id_text)}
          /\ db.observation[o].filled
    /\ \E o \in Ids(db.observation) : ~db.observation[o].filled
    /\ \E l1, l2 \in Ids(db.listing) :
          l1 # l2 /\ db.listing[l1].listing_id_text = db.listing[l2].listing_id_text
    /\ Cardinality(Triples(db)) >= 2

IsPrefix(s, t) == Len(s) <= Len(t) /\ SubSeq(t, 1, Len(s)) = s

\* every Observation references an existing Listing and an existing Field
ReferencesExist(d) ==
    \A o \in Ids(d.observation) :
        /\ d.observation[o].listing_id \in Ids(d.listing)
        /\ d.observation[o].field_id \in Ids(d.field)

\* C9: in every state reachable by add_listing, import_obs and
\* bulk_mark_empty, every Observation references an existing Listing and an
\* existing Field, and no operation removes or changes an existing Listing,
\* Field or Observation.
C9_ReferencesAndAppendOnly ==
    [][/\ ReferencesExist(db')
       /\ IsPrefix(db.listing, db'.listing)
       /\ IsPrefix(db.field, db'.field)
       /\ IsPrefix(db.observation, db'.observation)]_vars

\* C9 witness: one Listing with Observations written by all three
\* operations, of two Fields
C9_Witness ==
    /\ \E o \in Ids(db.observation) : db.observation[o].analyst \in Analysts
    /\ \E o \in Ids(db.observation) : db.observation[o].analyst \in BulkAnalysts
    /\ \E o \in Ids(db.observation) : db.observation[o].analyst \in ImportAnalysts
    /\ Len(db.field) = 2

\* C10: in every state reached from the empty store by import_obs alone, no
\* two Listings share the same (listing text, batch), even when the CSV
\* repeats a listing id across rows or across imports.
C10_ImportKeepsListingKey ==
    importsOnly =>
        \A l1, l2 \in Ids(db.listing) :
            (/\ db.listing[l1].listing_id_text = db.listing[l2].listing_id_text
             /\ db.listing[l1].batch = db.listing[l2].batch) => l1 = l2

\* C10 witness: imports alone have attached two Observations to one
\* Listing (its id repeated across rows or across imports) and created
\* another Listing
C10_Witness ==
    /\ importsOnly
    /\ Len(db.listing) = 2
    /\ \E l \in Ids(db.listing) :
          Cardinality({o \in Ids(db.observation) : db.observation[o].listing_id = l}) = 2

\* C8: in every state reachable by any interleaving of add_listing,
\* import_obs and find_or_create_field requests, two callers resolving the
\* same new name at the same time included, no two Field rows have the same
\* canonical name.
C8_CanonicalUnique ==
    \A i, j \in Ids(db.field) :
        db.field[i].canonical = db.field[j].canonical => i = j

\* C8 witness: two callers looked the same new name up and found nothing;
\* one has inserted it, the other is about to insert it
C8_Witness ==
    \E c \in Callers :
        /\ callers[c].pc = "insert_field"
        /\ ~FieldInsertAllowed(db, callers[c].name)

-----------------------------------------------------------------------------
(* The exported grid, read back cell by cell.  Once the export has run the  *)
(* tables stay as they are, so db is the store the grid was made from.      *)

\* the Listings of a batch
ListingsOf(batch) == {l \in Ids(db.listing) : db.listing[l].batch = batch}

\* the column of a Listing: after column A, in the order the Listings were made
ColumnOf(l) == 1 + Cardinality({k \in ListingsOf(db.listing[l].batch) : k <= l})

\* the row of a Field: the row whose first cell shows its canonical name
RowsOf(f) ==
    {r \in 2..(1 + Len(db.field)) : CellValue(sheet.cells, 1, r) = db.field[f].canonical}

\* the Observations of a (Field, Listing) pair
PairObservations(f, l) ==
    {o \in Ids(db.observation) :
        db.observation[o].field_id = f /\ db.observation[o].listing_id = l}

\* the number of cells of row r, among the n listing columns, that show glyph
GlyphCount(r, n, glyph) ==
    Cardinality({j \in 2..(1 + n) : CellValue(sheet.cells, j, r) = glyph})

\* C6: in every Field row of an exported grid, with filledCount and emptyCount
\* the numbers of filled and empty glyphs in the row's listing columns, the
\* removal cell shows YES exactly when emptyCount >= 6 and
\* filledCount + emptyCount >= 10 and NO otherwise, and the ratio cell shows
\* 0 when filledCount + emptyCount = 0 and emptyCount / (filledCount +
\* emptyCount) otherwise
C6_RemovalCandidate ==
    sheet.status = 200 =>
        LET n == Cardinality(ListingsOf(sheet.batch))
        IN  \A r \in 2..(1 + Len(db.field)) :
                LET filledCount == GlyphCount(r, n, SymbolFilled)
                    emptyCount  == GlyphCount(r, n, SymbolEmpty)
                IN  /\ CellValue(sheet.cells, n + 5, r)
                         = (IF emptyCount >= 6 /\ filledCount + emptyCount >= 10
                            THEN "YES" ELSE "NO")
                    /\ CellValue(sheet.cells, n + 4, r)
                         = (IF filledCount + emptyCount = 0
                            THEN [num |-> 0, den |-> 1]
                            ELSE [num |-> emptyCount, den |-> filledCount + emptyCount])

\* an exported grid of ten Listings with a row of 6 empty and 4 filled glyphs
\* that shows YES, and a row without any glyph that shows ratio 0 and NO
C6_Witness ==
    /\ sheet.status = 200
    /\ Cardinality(ListingsOf(sheet.batch)) = 10
    /\ \E r \in 2..(1 + Len(db.field)) :
          /\ GlyphCount(r, 10, SymbolEmpty) = 6
          /\ GlyphCount(r, 10, SymbolFilled) = 4
          /\ CellValue(sheet.cells, 15, r) = "YES"
    /\ \E r \in 2..(1 + Len(db.field)) :
          /\ GlyphCount(r, 10, SymbolEmpty) + GlyphCount(r, 10, SymbolFilled) = 0
          /\ CellValue(sheet.cells, 14, r) = [num |-> 0, den |-> 1]
          /\ CellValue(sheet.cells, 15, r) = "NO"

\* C7: a batch with a Listing, in a store with a Field, is exported when the
\* service raises nothing; the exported grid has one row per Field of the
\* whole store and one column per Listing of the batch in the order they were
\* made; the cell of a (Field, Listing) pair shows the unobserved glyph
\* exactly when the pair has no Observation, the filled glyph when its
\* Observations are filled and the empty glyph when they are not filled
C7_MatrixRowsColumnsGlyphs ==
    /\ \A batch \in Batches :
          ListingsOf(batch) # {} /\ Len(db.field) > 0 =>
              ExportGoogleSheetSymbols(
                  db, sheet, [gspread |-> TRUE, sheet_id |-> TRUE, batch |-> batch],
                  NoFailure).status = 200
    /\ sheet.status = 200 =>
          LET L == ListingsOf(sheet.batch)
              n == Cardinality(L)
          IN  /\ L # {} /\ Len(db.field) > 0
              /\ {k[2] : k \in {x \in DOMAIN sheet.cells : x[1] = 1}} = 1..(1 + Len(db.field))
              /\ \A f \in Ids(db.field) : Cardinality(RowsOf(f)) = 1
              /\ {k[1] : k \in {x \in DOMAIN sheet.cells : x[2] = 1}} = 1..(n + 5)
              /\ CellValue(sheet.cells, 1, 1) = HeaderFieldName
              /\ CellValue(sheet.cells, n + 2, 1) = HeaderFilledCount
              /\ \A l \in L :
                    CellValue(sheet.cells, ColumnOf(l), 1)
                        = ListingHeader(db, ColumnOf(l) - 1, l)
              /\ \A f \in Ids(db.field), l \in L :
                    \A r \in RowsOf(f) :
                        LET glyph == CellValue(sheet.cells, ColumnOf(l), r)
                            P     == PairObservations(f, l)
                        IN  /\ glyph = SymbolUnobserved <=> P = {}
                            /\ P # {} /\ (\A o \in P : db.observation[o].filled)
                                  => glyph = SymbolFilled
                            /\ P # {} /\ (\A o \in P : ~db.observation[o].filled)
                                  => glyph = SymbolEmpty

\* an exported grid of a batch with two Listings: one Field shows filled and
\* empty, and a Field without Observation has a row that is unobserved in
\* both columns
C7_Witness ==
    /\ sheet.status = 200
    /\ Cardinality(ListingsOf(sheet.batch)) = 2
    /\ \E f \in Ids(db.field) : \E r \in RowsOf(f) :
          /\ CellValue(sheet.cells, 2, r) = SymbolFilled
          /\ CellValue(sheet.cells, 3, r) = SymbolEmpty
    /\ \E f \in Ids(db.field) : \E r \in RowsOf(f) :
          /\ \A o \in Ids(db.observation) : db.observation[o].field_id # f
          /\ CellValue(sheet.cells, 2, r) = SymbolUnobserved
          /\ CellValue(sheet.cells, 3, r) = SymbolUnobserved

-----------------------------------------------------------------------------
(* The lookups of one (Field, Listing) pair *)

\* the glyph that says what a status of the field page says
GlyphOfStatus(status) ==
    CASE status = "filled" -> SymbolFilled
      [] status = "empty" -> SymbolEmpty
      [] OTHER -> SymbolUnobserved

\* C11: for every (Field, Listing) pair the field page, the gap test of
\* bulk_mark_empty and the cell of the matrix export all go by the
\* Observation of the pair that was recorded first, so the page's status and
\* the export's glyph say the same, and the gap test finds a gap exactly
\* where the page says unchecked
C11_LookupsUseFirstMatch ==
    \A f \in Ids(db.field), l \in Ids(db.listing) :
        /\ ObsMapGet(db, f, l) = ObservationFor(db, l, f)
        /\ FieldDetailRow(db, f, l).obs_id = ObservationFor(db, l, f)
        /\ Symbol(db, f, l) = GlyphOfStatus(FieldDetailStatus(db, f, l))
        /\ ObservationFor(db, l, f) = 0 <=> FieldDetailStatus(db, f, l) = "unchecked"

-----------------------------------------------------------------------------
(* The calls of one export, read from the log of the calls made *)

\* the place of a call among the phases
CallRank(c) ==
    CASE c.op = "open_by_key" -> 1
      [] c.op = "worksheet" -> 2
      [] c.op = "del_worksheet" -> 3
      [] c.op = "add_worksheet" -> 4
      [] c.op = "update" /\ c.at.row = 1 -> 5
      [] c.op = "update" /\ c.at.row = 2 -> 6
      [] c.op = "update_acell" -> 7
      [] OTHER -> 0

\* call c2 is the one that comes right after call c1, with n listing columns:
\* the next phase (the deletion only where there is a tab to delete), the
\* first formula after the rows, the next formula of a row, the first formula
\* of the next row
Follows(c1, c2, n) ==
    \/ CallRank(c1) < 7 /\ CallRank(c2) < 7 /\ CallRank(c2) = CallRank(c1) + 1
    \/ c1.op = "worksheet" /\ c2.op = "add_worksheet"
    \/ /\ CallRank(c1) = 6 /\ CallRank(c2) = 7
       /\ c2.at.row = 2 /\ ColumnIndex(c2.at.col) = n + 2
    \/ /\ CallRank(c1) = 7 /\ CallRank(c2) = 7
       /\ \/ c2.at.row = c1.at.row /\ ColumnIndex(c2.at.col) = ColumnIndex(c1.at.col) + 1
          \/ /\ c2.at.row = c1.at.row + 1
             /\ ColumnIndex(c1.at.col) = n + 5 /\ ColumnIndex(c2.at.col) = n + 2

\* C12: an export that got to the document made its calls in the order open,
\* tab deleted and made again, header, rows, formulas row by row, none left
\* out on the way; its answer names the call it stopped at, which is the last
\* call made; without a Listing of the batch or without a Field it stopped
\* after opening, the tab untouched; and only after the last formula of the
\* last row it answers 200
C12_PhasesInOrder ==
    sheet.calls # <<>> =>
        LET calls == sheet.calls
            last  == calls[Len(calls)]
            n     == Cardinality(ListingsOf(sheet.batch))
        IN  /\ calls[1].op = "open_by_key"
            /\ \A i \in 1..(Len(calls) - 1) : Follows(calls[i], calls[i + 1], n)
            /\ n = 0 \/ Len(db.field) = 0 => Len(calls) = 1 /\ sheet.status \in {400, 500}
            /\ CASE sheet.msg = "gspread open error" ->
                        sheet.status = 500 /\ Len(calls) = 1
                  [] sheet.msg = "No listings found for batch" ->
                        sheet.status = 400 /\ Len(calls) = 1 /\ n = 0
                  [] sheet.msg = "No fields found." ->
                        sheet.status = 400 /\ Len(calls) = 1 /\ Len(db.field) = 0
                  [] sheet.msg = "sheet creation error" ->
                        sheet.status = 500 /\ last.op = "add_worksheet"
                  [] sheet.msg = "error writing header" ->
                        sheet.status = 500 /\ CallRank(last) = 5 /\ sheet.tab
                  [] sheet.msg = "error writing rows" ->
                        sheet.status = 500 /\ CallRank(last) = 6 /\ sheet.tab
                  [] sheet.msg = "error writing formulas at row" ->
                        /\ sheet.status = 500 /\ sheet.tab
                        /\ CallRank(last) = 7 /\ last.at.row = sheet.row
                  [] sheet.msg = "Exported" ->
                        /\ sheet.status = 200 /\ sheet.tab
                        /\ CallRank(last) = 7
                        /\ last.at.row = 1 + Len(db.field)
                        /\ ColumnIndex(last.at.col) = n + 5
                  [] OTHER -> FALSE

\* a second export of a batch that stopped at a formula of the second Field's
\* row: the tab was deleted and made again, header, rows and the four
\* formulas of the first row written, and nothing after the failing call
C12_Witness ==
    /\ sheet.status = 500
    /\ sheet.msg = "error writing formulas at row"
    /\ sheet.row = 3
    /\ \E i \in 1..Len(sheet.calls) : sheet.calls[i].op = "del_worksheet"
    /\ Cardinality({i \in 1..Len(sheet.calls) :
                       sheet.calls[i].op = "update_acell" /\ sheet.calls[i].at.row = 2}) = 4
    /\ sheet.calls[Len(sheet.calls)].at.row = 3

=============================================================================
